---- MODULE Spec2Model ----
(***************************************************************************)
(* Model of the elevation-difference classification and statistics engine  *)
(* of dem_compare_lib/stats.py: create_sets, cross_class_apha_bands,       *)
(* create_masks and get_stats, driven in the order of alti_diff_stats, and  *)
(* of the baseline comparison of dem_compare_lib/compare_with_baseline.py:  *)
(* check_csv and main.                                                     *)
(*                                                                         *)
(* A raster is a function from pixel numbers to IEEE-754 samples.  A       *)
(* sample is a record: a finite number [kind |-> "fin", v |-> n], a        *)
(* not-a-number [kind |-> "nan"], or an infinity [kind |-> "inf"] with     *)
(* v = 1 or v = -1.  Comparisons follow IEEE-754: every ordered comparison *)
(* and every equality with a NaN is false.  Finite arithmetic is exact     *)
(* (rounding is not modelled).                                             *)
(***************************************************************************)
EXTENDS Integers, Sequences, FiniteSets

VARIABLES
    pc,                \* position in alti_diff_stats
    cfg,               \* cfg['stats_opts']: class_type, cross_classification, class_rad_range, class_support_dsm
    support_ref,       \* reference support raster (None when there is none)
    support_dsm,       \* secondary support raster (None when there is none)
    alti_map,          \* the elevation-difference raster
    do_classify_results,
    do_cross_classification,
    ref_sets_def,      \* class grids of the reference support (None before create_sets)
    dsm_sets_def,      \* class grids of the secondary support
    ref_png,           \* Ref_support_classified.png: pixel -> <<R, G, B, alpha>>
    dsm_png,           \* DSM_support_classified.png
    to_keep_masks,     \* masks returned by create_masks
    modes,             \* mode names returned by create_masks
    no_outliers_mask,  \* outlier mask returned by create_masks
    mode,              \* index of the mode the per-mode loop is at
    mode_stats,        \* the get_stats result of the mode being processed
    labels_saved,      \* labels plot_histograms returned for the mode being processed
    plot_files,        \* histogram files plot_histograms returned
    plot_colors,       \* colours plot_histograms returned (the index of the set stands for its colour)
    contributions,     \* the bars of the 'Classes contributions' plot of the mode being processed
    artifacts,         \* the files written to the output directory
    stats_results,     \* the results save_results wrote, one entry per mode saved
    nb_reconcile,      \* number of times cross_class_apha_bands has run
    ext_support,       \* the support rasters the raster collaborator delivers (slope or rectified user image)
    sc_array,          \* the array of a direct call of stats_computation
    sc_res,            \* what that call returned (None before it returns)
    baseline_data,     \* compare_with_baseline.main: the baseline CSV files as load_csv read them
    test_data,         \* the CSV files of the run under test
    epsilon,           \* the tolerance main compares with
    file_idx,          \* the file pair the comprehension of main is at
    differences,       \* what check_csv returned for the file pairs done
    error              \* the exception main ended with (None when there is none)

vars == <<pc, cfg, support_ref, support_dsm, alti_map, do_classify_results,
          do_cross_classification, ref_sets_def, dsm_sets_def, ref_png, dsm_png,
          to_keep_masks, modes, no_outliers_mask, mode, mode_stats, labels_saved,
          plot_files, plot_colors, contributions, artifacts, stats_results, nb_reconcile, ext_support,
          sc_array, sc_res, baseline_data, test_data, epsilon, file_idx, differences, error>>

------------------------------------------------------------------------------
(* Bounds of the model *)

\* number of pixels of every raster
NPix == 2
\* largest number of class boundaries in class_rad_range
MaxClasses == 3
\* how many more times the reconciliation may be re-run in SpecReconcile
MaxReRun == 1

Pix == 1..NPix

------------------------------------------------------------------------------
(* IEEE-754 samples *)

Fin(n) == [kind |-> "fin", v |-> n]
NaN == [kind |-> "nan", v |-> 0]
PInf == [kind |-> "inf", v |-> 1]
NInf == [kind |-> "inf", v |-> -1]
\* Python's None, and a value that is present
None == [kind |-> "none", v |-> 0]
Some(x) == [kind |-> "some", v |-> x]
IsNone(o) == o.kind = "none"

\* np.isnan
IsNan(x) == x.kind = "nan"
\* a finite sample: the only kind whose comparison with mu - 3 sigma and
\* mu + 3 sigma (line 351) depends on its value
IsFinite(x) == x.kind = "fin"
\* x == y on floats
FEq(x, y) == ~IsNan(x) /\ ~IsNan(y) /\ x = y
\* x != y on floats
FNe(x, y) == ~FEq(x, y)
\* x < y on floats
FLt(x, y) ==
    /\ ~IsNan(x) /\ ~IsNan(y)
    /\ \/ x.kind = "fin" /\ y.kind = "fin" /\ x.v < y.v
       \/ x = NInf /\ y # NInf
       \/ y = PInf /\ x # PInf
\* x <= y on floats
FLe(x, y) == FLt(x, y) \/ FEq(x, y)

------------------------------------------------------------------------------
(* create_sets *)

\* the support nodata of the slope and user support rasters
SupportNodata == -32768
\* the value create_sets initialises the four channels of the image with
Opaque == 255
\* getColor refuses more colours than this
MaxColors == 20

\* getColorRaises refusing 20 colours too
getColorRaisesFromTwenty(nb_color) == nb_color >= MaxColors

\* getColor(nb_color) raises NameError when nb_color > 20
getColorRaises(nb_color) == nb_color > MaxColors

\* sets_colors[idx][i]: channel i of the colour of class idx, scaled to 0..255.
\* The palette is a fixed table of distinct colours; the table is abstracted
\* to one distinct byte per (class, channel), none of them 0 or 255.
sets_colors(idx, i) == 3 * idx + i - 3

\* InRange without the upper boundary
InRangeLowerOnly(sets_rad_range, idx, x) == FLe(Fin(sets_rad_range[idx]), x)

\* InRange with the upper boundary taken inclusive
InRangeUpperInclusive(sets_rad_range, idx, x) ==
    IF idx = Len(sets_rad_range)
    THEN FLe(Fin(sets_rad_range[idx]), x)
    ELSE FLe(Fin(sets_rad_range[idx]), x) /\ FLe(x, Fin(sets_rad_range[idx + 1]))

\* the pixel's raw value lies in the interval of class idx (lines 251, 257)
InRange(sets_rad_range, idx, x) ==
    IF idx = Len(sets_rad_range)
    THEN FLe(Fin(sets_rad_range[idx]), x)
    ELSE FLe(Fin(sets_rad_range[idx]), x) /\ FLt(x, Fin(sets_rad_range[idx + 1]))

\* the pixels create_sets takes out of every class and paints with the nodata colour
IsNanOrNodata(img, p) == IsNan(img.r[p]) \/ FEq(img.r[p], Fin(img.nodata))

\* output_sets_def: one boolean grid per boundary
OutputSetsDef(img, sets_rad_range) ==
    [idx \in 1..Len(sets_rad_range) |->
        [p \in Pix |-> IF IsNanOrNodata(img, p)
                       THEN FALSE
                       ELSE InRange(sets_rad_range, idx, img.r[p])]]

\* output_v: the four channels of the classified image
OutputV(img, sets_rad_range, output_descriptor) ==
    [p \in Pix |->
        IF IsNanOrNodata(img, p)
        THEN [i \in 1..4 |-> output_descriptor.nodata[i]]
        ELSE LET hit == {idx \in 1..Len(sets_rad_range) : InRange(sets_rad_range, idx, img.r[p])}
                 \* the loop of line 249 runs in index order: the last write stays
                 last == CHOOSE idx \in hit : \A j \in hit : j <= idx
             IN  [i \in 1..4 |-> IF i <= 3 /\ hit # {} THEN sets_colors(last, i) ELSE Opaque]]

\* create_sets: the class grids and the image written to output_descriptor['path']
create_sets(img, sets_rad_range, output_descriptor) ==
    [sets |-> OutputSetsDef(img, sets_rad_range),
     png  |-> OutputV(img, sets_rad_range, output_descriptor)]

------------------------------------------------------------------------------
(* cross_class_apha_bands *)

\* Incoherent with np.any in the place of np.all: every pair of sets differs
IncoherentEveryPair(ref_sets, dsm_sets, p) ==
    \A i \in 1..Len(ref_sets) : ref_sets[i][p] # dsm_sets[i][p]

\* np.all(combine_sets, axis=0) == False: some pair of sets differs at the pixel
Incoherent(ref_sets, dsm_sets, p) ==
    \E i \in 1..Len(ref_sets) : ref_sets[i][p] # dsm_sets[i][p]

\* SetAlpha inverting the alpha of the incoherent pixels instead of clearing it
SetAlphaInverted(png, ref_sets, dsm_sets) ==
    [p \in Pix |-> IF Incoherent(ref_sets, dsm_sets, p)
                   THEN [png[p] EXCEPT ![4] = 255 - png[p][4]]
                   ELSE png[p]]

\* the alpha band after lines 314-315; the MEM copy keeps the other bands
SetAlpha(png, ref_sets, dsm_sets) ==
    [p \in Pix |-> IF Incoherent(ref_sets, dsm_sets, p)
                   THEN [png[p] EXCEPT ![4] = 0]
                   ELSE png[p]]

\* cross_class_apha_bands: both images as written back to their paths
cross_class_apha_bands(ref, dsm, ref_sets, dsm_sets) ==
    [ref |-> SetAlpha(ref, ref_sets, dsm_sets),
     dsm |-> SetAlpha(dsm, ref_sets, dsm_sets)]

------------------------------------------------------------------------------
(* create_masks *)

RECURSIVE SumOver(_, _)
\* sum of f over the finite set S
SumOver(f, S) ==
    IF S = {} THEN 0
    ELSE LET p == CHOOSE q \in S : TRUE IN f[p] + SumOver(f, S \ {p})

\* the pixels at which a boolean grid is True: np.where(mask == True)
Where(mask) == {p \in Pix : mask[p]}

\* get_nonan_mask: (~np.isnan(x)) * (x != nan_value)
get_nonan_mask(array, nan_value) ==
    [p \in Pix |-> ~IsNan(array[p]) /\ FNe(array[p], Fin(nan_value))]

\* get_ouliersfree_mask: (x > mu - 3 sigma) * (x < mu + 3 sigma), mu and sigma
\* the mean and the standard deviation of the samples selected by no_nan_mask.
\* With n samples of sum S and sum of squares Q, mu = S/n and
\* sigma^2 = (n Q - S^2)/n^2, so for a finite x the test is
\* (n x - S)^2 < 9 (n Q - S^2).  An empty selection gives mu = sigma = NaN, and a
\* selection holding an infinity gives sigma = NaN: every comparison is False.
get_ouliersfree_mask(array, no_nan_mask) ==
    LET sel == Where(no_nan_mask)
        n   == Cardinality(sel)
        val == [p \in Pix |-> array[p].v]
        S   == SumOver(val, sel)
        Q   == SumOver([p \in Pix |-> val[p] * val[p]], sel)
        sigma_is_nan == sel = {} \/ \E p \in sel : ~IsFinite(array[p])
    IN  [p \in Pix |->
            /\ ~sigma_is_nan
            /\ IsFinite(array[p])
            /\ (n * val[p] - S) * (n * val[p] - S) < 9 * (n * Q - S * S)]

\* a * b on boolean grids
MaskAnd(a, b) == [p \in Pix |-> a[p] /\ b[p]]
\* MaskNot with the negation forgotten
MaskNotForgotten(a) == a
\* ~a on a boolean grid
MaskNot(a) == [p \in Pix |-> ~a[p]]

\* masks[0] when the outlier mask is computed (line 361)
NoNanAlti(alti) == get_nonan_mask(alti.r, alti.nodata)

\* masks[0] as returned (lines 361, 369-370)
StandardMask(alti, do_classification, ref_support) ==
    IF do_classification
    THEN MaskAnd(NoNanAlti(alti), get_nonan_mask(ref_support.r, ref_support.nodata))
    ELSE NoNanAlti(alti)

\* CoherentMask reading the first band of the image instead of the alpha band
CoherentMaskFromColour(png, desc) ==
    get_nonan_mask([p \in Pix |-> Fin(png[p][1])], desc.nodata[1])

\* coherent_mask (lines 375-378): band 4 of the reference classified image
\* compared with the first entry of the descriptor's nodata
CoherentMask(png, desc) ==
    get_nonan_mask([p \in Pix |-> Fin(png[p][4])], desc.nodata[1])

\* HasCrossModes testing the classification alone
HasCrossModesClassificationOnly(do_classification, do_cross) == do_classification
\* the test of line 373
HasCrossModes(do_classification, do_cross) == do_classification /\ do_cross

\* create_masks: masks, modes and the outlier mask
create_masks(alti, do_classification, ref_support, do_cross, png, desc, remove_outliers) ==
    LET m0 == StandardMask(alti, do_classification, ref_support)
        no_outliers == IF remove_outliers
                       THEN Some(get_ouliersfree_mask(alti.r, NoNanAlti(alti)))
                       ELSE None
    IN  IF HasCrossModes(do_classification, do_cross)
        THEN [masks |-> <<m0,
                          MaskAnd(m0, CoherentMask(png, desc)),
                          MaskAnd(m0, MaskNot(CoherentMask(png, desc)))>>,
              modes |-> <<"standard", "coherent-classification", "incoherent-classification">>,
              no_outliers |-> no_outliers]
        ELSE [masks |-> <<m0>>, modes |-> <<"standard">>, no_outliers |-> no_outliers]

------------------------------------------------------------------------------
(* stats_computation and get_stats *)

Abs(x) == IF x < 0 THEN -x ELSE x

RECURSIVE GCD(_, _)
GCD(a, b) == IF b = 0 THEN a ELSE GCD(b, a % b)

\* the exact number num/den (den > 0), in lowest terms
Rat(num, den) ==
    LET g == GCD(Abs(num), den)
    IN  [kind |-> "fin", num |-> num \div g, den |-> den \div g]

\* the square root of num/den (num >= 0, den > 0), kept symbolic
Sqrt(num, den) ==
    LET g == GCD(num, den)
    IN  [kind |-> "sqrt", num |-> num \div g, den |-> den \div g]

RECURSIVE SortedSeq(_, _)
\* the values of f over S in ascending order
SortedSeq(f, S) ==
    IF S = {} THEN <<>>
    ELSE LET p == CHOOSE q \in S : \A t \in S : f[q] <= f[t]
         IN  <<f[p]>> \o SortedSeq(f, S \ {p})

\* Median2 taking the upper middle order statistic when the length is even
Median2UpperMiddle(f, S) ==
    LET s == SortedSeq(f, S)
    IN  2 * s[Len(s) \div 2 + 1]

\* twice np.nanmedian of f over the non-empty set S: the middle order statistic,
\* or the mean of the two middle ones
Median2(f, S) ==
    LET s == SortedSeq(f, S)
        n == Len(s)
    IN  IF n % 2 = 1 THEN 2 * s[(n + 1) \div 2] ELSE s[n \div 2] + s[n \div 2 + 1]

\* stats_computation on the samples of array at the positions sel (all finite)
stats_computation(array, sel) ==
    LET n   == Cardinality(sel)
        val == [p \in DOMAIN array |-> array[p].v]
        S   == SumOver(val, sel)
        Q   == SumOver([p \in DOMAIN array |-> val[p] * val[p]], sel)
        m2  == Median2(val, sel)
        dev == [p \in DOMAIN array |-> Abs(2 * val[p] - m2)]
    IN  IF n # 0
        THEN [nbpts |-> n,
              max |-> Rat(CHOOSE x \in {val[p] : p \in sel} : \A p \in sel : val[p] <= x, 1),
              min |-> Rat(CHOOSE x \in {val[p] : p \in sel} : \A p \in sel : x <= val[p], 1),
              mean |-> Rat(S, n),
              std |-> Sqrt(n * Q - S * S, n * n),
              rmse |-> Sqrt(Q, n),
              median |-> Rat(m2, 2),
              nmad |-> Rat(14826 * Median2(dev, sel), 40000),
              sum_err |-> Rat(S, 1),
              sum_err_err |-> Rat(Q, 1)]
        ELSE [nbpts |-> 0, max |-> NaN, min |-> NaN, mean |-> NaN, std |-> NaN,
              rmse |-> NaN, median |-> NaN, nmad |-> NaN, sum_err |-> NaN,
              sum_err_err |-> NaN]

\* a percentile of samples that hold an infinity: the deviations from the mean are
\* infinite or NaN, and the interpolation between two infinities gives an
\* infinity or a NaN
NotFinite == [kind |-> "notfinite", v |-> 0]

\* nighty_percentile giving 0 whatever the samples are
nighty_percentile_zero(array, sel) == Rat(0, 1)

\* nighty_percentile on the samples of array at the positions sel:
\* np.nanpercentile(np.abs(array - np.nanmean(array)), 90), linear interpolation
\* at the position 0.9 (n - 1) of the sorted deviations.  With S the sum of the n
\* samples the deviation of x is |n x - S| / n.
nighty_percentile(array, sel) ==
    LET n   == Cardinality(sel)
        val == [p \in DOMAIN array |-> array[p].v]
        S   == SumOver(val, sel)
        dev == [p \in DOMAIN array |-> Abs(n * val[p] - S)]
        s   == SortedSeq(dev, sel)
        lo  == (9 * (n - 1)) \div 10
        fr  == (9 * (n - 1)) % 10
    IN  IF n = 0 THEN NaN
        ELSE IF \E p \in sel : ~IsFinite(array[p]) THEN NotFinite
        ELSE IF fr = 0 THEN Rat(s[lo + 1], n)
        ELSE Rat(10 * s[lo + 1] + fr * (s[lo + 2] - s[lo + 1]), 10 * n)

\* get_sets_labels_and_names: the label and the name of every class
sets_labels(class_type, class_rad_range) ==
    [i \in 1..Len(class_rad_range) |->
        [kind |-> IF class_type = "slope" THEN "nabla" ELSE "val",
         lo |-> class_rad_range[i],
         hi |-> IF i = Len(class_rad_range) THEN class_rad_range[i] ELSE class_rad_range[i + 1],
         last |-> i = Len(class_rad_range)]]

sets_names(class_rad_range) ==
    [i \in 1..Len(class_rad_range) |->
        [kind |-> "name",
         lo |-> class_rad_range[i],
         hi |-> IF i = Len(class_rad_range) THEN class_rad_range[i] ELSE class_rad_range[i + 1],
         last |-> i = Len(class_rad_range)]]

\* a mask that is not set has no effect (np.ones)
OrOnes(mask) == IF IsNone(mask) THEN [p \in Pix |-> TRUE] ELSE mask.v

\* Percent with the size of the record's own population as the denominator
PercentOfOwnSize(nbpts, nb_total_points) ==
    IF nbpts = 0 THEN Rat(0, 1) ELSE Rat(100, 1)

\* the '%' field: 100 * float(nbpts) / float(nb_total_points) (lines 459, 472)
Percent(nbpts, nb_total_points) == Rat(100 * nbpts, nb_total_points)

\* one record of get_stats: stats_computation over sel, then the fields added to
\* it, the 90th percentile being taken over sel90
StatsRecord(dz_values, sel, sel90, label, name) ==
    [stats |-> stats_computation(dz_values, sel),
     set_label |-> label,
     set_name |-> name,
     percent |-> Percent(Cardinality(sel), Cardinality(DOMAIN dz_values)),
     p90 |-> nighty_percentile(dz_values, sel90)]

\* the population of the 'all' record (line 455)
AllPopulation(to_keep_mask, no_outliers) ==
    Where(MaskAnd(OrOnes(to_keep_mask), OrOnes(no_outliers)))

\* SetPopulation without the outlier mask
SetPopulationKeepOnly(set, to_keep_mask, no_outliers) ==
    Where(MaskAnd(set, OrOnes(to_keep_mask)))

\* the population of the record of class set_idx (lines 466-468)
SetPopulation(set, to_keep_mask, no_outliers) ==
    Where(MaskAnd(MaskAnd(set, OrOnes(to_keep_mask)), OrOnes(no_outliers)))

\* PercentilePopulation forgetting the keep mask
PercentilePopulationUnmasked(set, to_keep_mask) == Where(set)

\* the samples nighty_percentile is given (lines 461, 473): the outliers are kept
PercentilePopulation(set, to_keep_mask) == Where(MaskAnd(set, OrOnes(to_keep_mask)))

\* get_stats: the 'all' record, then one record per set
get_stats(dz_values, to_keep_mask, no_outliers, sets, labels, names) ==
    LET ones == [p \in Pix |-> TRUE]
        first == StatsRecord(dz_values, AllPopulation(to_keep_mask, no_outliers),
                             PercentilePopulation(ones, to_keep_mask),
                             [kind |-> "all"], [kind |-> "All classes considered"])
    IN  IF ~IsNone(sets) /\ ~IsNone(labels) /\ ~IsNone(names)
        THEN <<first>> \o
             [set_idx \in 1..Len(sets.v) |->
                 StatsRecord(dz_values,
                             SetPopulation(sets.v[set_idx], to_keep_mask, no_outliers),
                             PercentilePopulation(sets.v[set_idx], to_keep_mask),
                             labels.v[set_idx], names.v[set_idx])]
        ELSE <<first>>

------------------------------------------------------------------------------
(* set_image_to_classify_from *)

\* CrossClassificationAfter leaving the request as it is
CrossClassificationAsRequested(class_type, has_support_dsm, requested) == requested

\* cfg['stats_opts']['cross_classification'] after lines 78-80: there is no cross
\* classification without a second 'user' support image
CrossClassificationAfter(class_type, has_support_dsm, requested) ==
    IF class_type = "user" /\ ~has_support_dsm THEN FALSE ELSE requested

\* what set_image_to_classify_from returns, cfg being updated by line 80.
\* create_slope_image gives the second slope image when cross classification is
\* requested; rectify_user_support_img gives the second support image when
\* 'class_support_dsm' is in the configuration and cross classification is
\* requested (line 167).
set_image_to_classify_from(c, ext) ==
    LET do_classification == c.class_type # "none"
        ref == IF do_classification THEN ext.ref ELSE None
        has_support_dsm ==
            \/ c.class_type = "slope" /\ c.cross_classification
            \/ c.class_type = "user" /\ c.class_support_dsm /\ c.cross_classification
        dsm == IF has_support_dsm THEN ext.dsm ELSE None
        cross == CrossClassificationAfter(c.class_type, has_support_dsm, c.cross_classification)
    IN  [do_classification |-> do_classification,
         cross_classification |-> cross,
         support_ref |-> ref,
         support_dsm |-> dsm]

-------------------------------------------------------------------------------------------------------------------------------------------------------
(* plot_histograms and save_results *)

\* sets=[np.ones(...)]+ref_sets_def (line 837): index 0 is the 'all' set
PlotSets(ref_sets) == [j \in 0..Len(ref_sets) |->
                          IF j = 0 THEN [p \in Pix |-> TRUE] ELSE ref_sets[j]]

\* sets_labels=['all']+sets_labels (line 838)
PlotLabels(labels) == [j \in 0..Len(labels) |->
                          IF j = 0 THEN [kind |-> "all"] ELSE labels[j]]

\* data of set set_idx (lines 586-588)
PlotData(sets, to_keep_mask, set_idx) == Where(MaskAnd(sets[set_idx], to_keep_mask))

\* the indices of the sets that have data (line 591), in loop order
RECURSIVE PlottedFrom(_, _, _, _)
PlottedFrom(sets, to_keep_mask, set_idx, last) ==
    IF set_idx > last THEN <<>>
    ELSE (IF PlotData(sets, to_keep_mask, set_idx) # {} THEN <<set_idx>> ELSE <<>>)
         \o PlottedFrom(sets, to_keep_mask, set_idx + 1, last)

\* the list sets of plot_histograms once the loop has passed set_idx = last: line
\* 587 puts sets[set_idx] * to_keep_mask in the place of sets[set_idx]
SetsInLoop(sets, to_keep_mask, last) ==
    [j \in DOMAIN sets |-> IF j <= last THEN MaskAnd(sets[j], to_keep_mask) ELSE sets[j]]

\* CallerSets as if plot_histograms were given the caller's own grids to write in
CallerSetsWrittenThrough(ref_sets, sets) == [i \in DOMAIN ref_sets |-> sets[i]]

\* ref_sets_def of alti_diff_stats once plot_histograms has worked on sets: the
\* list given is a new one (line 837) and line 587 puts new arrays in its places,
\* so the caller's grids are not written
CallerSets(ref_sets, sets) == ref_sets

\* a + b on exact numbers
RatAdd(a, b) == Rat(a.num * b.den + b.num * a.den, a.den * b.den)

\* SetContribution with the size of the whole array as the denominator
SetContributionOfArray(size, set_zero_size) == Rat(100 * size, NPix)

\* set_contribution (line 596): 100 * float(data.size) / float(set_zero_size)
SetContribution(size, set_zero_size) == Rat(100 * size, set_zero_size)

\* line 596 divides by set_zero_size, which is 0 until set 0 has had data: a later
\* set with data while set 0 has none raises ZeroDivisionError
ContributionRaises(plotted) == plotted # <<>> /\ plotted[1] # 0

\* the bars of the 'Classes contributions' plot (lines 581, 595-599, 616-620): the
\* loop over the sets that have data, from rank k on
RECURSIVE Bars(_, _, _, _, _, _)
Bars(sets, to_keep_mask, plotted, k, set_zero_size, cumulative_percent) ==
    IF k > Len(plotted) THEN <<>>
    ELSE LET set_idx == plotted[k]
             size == Cardinality(PlotData(sets, to_keep_mask, set_idx))
         IN  IF set_idx # 0
             THEN LET set_contribution == SetContribution(size, set_zero_size)
                      cumulative == RatAdd(cumulative_percent, set_contribution)
                  IN  <<[set_idx |-> set_idx,
                         set_contribution |-> set_contribution,
                         cumulative_percent |-> cumulative]>>
                      \o Bars(sets, to_keep_mask, plotted, k + 1, set_zero_size, cumulative)
             ELSE Bars(sets, to_keep_mask, plotted, k + 1, size, cumulative_percent)

\* SavedWhenFitFails saving the histogram of the failing set too
SavedThroughFailure(failed) == 1..failed

\* the sets, by their rank among the plotted ones, whose histogram is saved when
\* the fit of the set of rank failed raises: np.save (line 632) comes after the
\* fit (line 605), so those before it
SavedWhenFitFails(failed) == 1..(failed - 1)

\* np.nanmin of an empty selection raises ValueError (lines 555-556)
BorneRaises(to_keep_mask) == Where(to_keep_mask) = {}

\* save_results pairing the records with the plotted files by position
save_results_by_position(stats_list, labels_plotted, files, colors) ==
    [k \in 0..(Len(stats_list) - 1) |->
        IF k + 1 <= Len(labels_plotted)
        THEN [record |-> stats_list[k + 1],
              plot_file |-> Some(files[k + 1]),
              plot_color |-> Some(colors[k + 1])]
        ELSE [record |-> stats_list[k + 1], plot_file |-> None, plot_color |-> None]]

\* save_results: results[str(stats_index)], with plot_file and plot_color when the
\* record's label is among labels_plotted (lines 672-682)
save_results(stats_list, labels_plotted, files, colors) ==
    [k \in 0..(Len(stats_list) - 1) |->
        LET stats_elem == stats_list[k + 1]
            at == {j \in 1..Len(labels_plotted) : labels_plotted[j] = stats_elem.set_label}
        IN  IF at # {}
            THEN LET j == CHOOSE x \in at : \A y \in at : x <= y
                 IN  [record |-> stats_elem,
                      plot_file |-> Some(files[j]),
                      plot_color |-> Some(colors[j])]
            ELSE [record |-> stats_elem, plot_file |-> None, plot_color |-> None]]

------------------------------------------------------------------------------
(* alti_diff_stats, one action per call it makes *)

\* the descriptor of both classified images (lines 767, 776)
Descriptor == [nodata |-> <<0, 0, 0, 0>>]

classifV == <<support_ref, support_dsm, do_classify_results, do_cross_classification>>
setsV == <<ref_sets_def, dsm_sets_def>>
pngV == <<ref_png, dsm_png>>
masksV == <<to_keep_masks, modes, no_outliers_mask>>
plotV == <<labels_saved, plot_files, plot_colors, contributions>>
diskV == <<artifacts, stats_results>>
\* the variables of the direct call of stats_computation
callV == <<sc_array, sc_res>>
\* the variables of compare_with_baseline.main
cmpV == <<baseline_data, test_data, epsilon, file_idx, differences, error>>
\* what alti_diff_stats has no hand in
sideV == <<callV, cmpV>>
\* the variables of alti_diff_stats, but its position
pipelineV == <<cfg, classifV, alti_map, setsV, pngV, masksV, mode, mode_stats, plotV, diskV,
               nb_reconcile, ext_support>>

\* AfterCreateSets never running the reconciliation
AfterCreateSetsSkipping(do_classification, do_cross) == "create_masks"

\* what follows the creation of the sets (line 783): cross_class_apha_bands when
\* classification and cross classification are both on, create_masks otherwise
AfterCreateSets(do_classification, do_cross) ==
    IF do_classification /\ do_cross THEN "cross_class" ELSE "create_masks"

\* line 745
SetImageToClassifyFrom ==
    /\ pc = "set_image"
    /\ LET res == set_image_to_classify_from(cfg, ext_support)
       IN  /\ do_classify_results' = res.do_classification
           /\ do_cross_classification' = res.cross_classification
           /\ cfg' = [cfg EXCEPT !.cross_classification = res.cross_classification]
           /\ support_ref' = res.support_ref
           /\ support_dsm' = res.support_dsm
           /\ pc' = IF res.do_classification THEN "create_sets_ref" ELSE "create_masks"
    /\ UNCHANGED <<alti_map, setsV, pngV, masksV, mode, mode_stats, plotV, diskV,
                   nb_reconcile, ext_support, sideV>>

\* lines 762-769
CreateSetsRef ==
    /\ pc = "create_sets_ref"
    /\ IF getColorRaises(Len(cfg.class_rad_range))
       THEN /\ pc' = "raised"
            /\ UNCHANGED <<ref_sets_def, ref_png>>
       ELSE LET res == create_sets(support_ref, cfg.class_rad_range, Descriptor)
            IN  /\ ref_sets_def' = Some(res.sets)
                /\ ref_png' = res.png
                /\ pc' = IF do_cross_classification
                         THEN "create_sets_dsm"
                         ELSE AfterCreateSets(do_classify_results, do_cross_classification)
    /\ UNCHANGED <<cfg, classifV, alti_map, dsm_sets_def, dsm_png, masksV, mode, mode_stats,
                   plotV, diskV, nb_reconcile, ext_support, sideV>>

\* lines 771-778
CreateSetsDsm ==
    /\ pc = "create_sets_dsm"
    /\ IF getColorRaises(Len(cfg.class_rad_range))
       THEN /\ pc' = "raised"
            /\ UNCHANGED <<dsm_sets_def, dsm_png>>
       ELSE LET res == create_sets(support_dsm, cfg.class_rad_range, Descriptor)
            IN  /\ dsm_sets_def' = Some(res.sets)
                /\ dsm_png' = res.png
                /\ pc' = AfterCreateSets(do_classify_results, do_cross_classification)
    /\ UNCHANGED <<cfg, classifV, alti_map, ref_sets_def, ref_png, masksV, mode, mode_stats,
                   plotV, diskV, nb_reconcile, ext_support, sideV>>

\* lines 783-784
CrossClassAlphaBands ==
    /\ pc = "cross_class"
    /\ LET res == cross_class_apha_bands(ref_png, dsm_png, ref_sets_def.v, dsm_sets_def.v)
       IN  /\ ref_png' = res.ref
           /\ dsm_png' = res.dsm
    /\ nb_reconcile' = nb_reconcile + 1
    /\ pc' = "create_masks"
    /\ UNCHANGED <<cfg, classifV, alti_map, setsV, masksV, mode, mode_stats, plotV, diskV,
                   ext_support, sideV>>

\* lines 789-791
CreateMasks ==
    /\ pc = "create_masks"
    /\ LET res == create_masks(alti_map, do_classify_results, support_ref,
                               do_cross_classification, ref_png, Descriptor, TRUE)
       IN  /\ to_keep_masks' = res.masks
           /\ modes' = res.modes
           /\ no_outliers_mask' = res.no_outliers
    /\ mode' = 1
    /\ pc' = "get_stats"
    /\ UNCHANGED <<cfg, classifV, alti_map, setsV, pngV, mode_stats, plotV, diskV,
                   nb_reconcile, ext_support, sideV>>

\* lines 797-806
GetStats ==
    /\ pc = "get_stats"
    /\ mode_stats' =
           get_stats(alti_map.r, Some(to_keep_masks[mode]), no_outliers_mask, ref_sets_def,
                     IF do_classify_results
                     THEN Some(sets_labels(cfg.class_type, cfg.class_rad_range)) ELSE None,
                     IF do_classify_results
                     THEN Some(sets_names(cfg.class_rad_range)) ELSE None)
    /\ pc' = "plot_histograms"
    /\ UNCHANGED <<cfg, classifV, alti_map, setsV, pngV, masksV, mode, plotV, diskV,
                   nb_reconcile, ext_support, sideV>>

\* lines 833-843: plot_histograms.  The list concatenations of lines 837-839 raise
\* TypeError when there is no classification, lines 555-556 raise on an empty
\* selection, and curve_fit may fail to converge on any set that has data; the
\* histogram of a set is saved after its fit (line 632).
PlotHistograms ==
    /\ pc = "plot_histograms"
    /\ IF IsNone(ref_sets_def)
       THEN /\ pc' = "raised"
            /\ UNCHANGED <<plotV, artifacts, ref_sets_def>>
       ELSE LET keep == MaskAnd(to_keep_masks[mode], no_outliers_mask.v)
                sets == PlotSets(ref_sets_def.v)
                labels == PlotLabels(sets_labels(cfg.class_type, cfg.class_rad_range))
                plotted == PlottedFrom(sets, keep, 0, Len(ref_sets_def.v))
                npy(k) == [type |-> "npy", mode |-> modes[mode], set_idx |-> plotted[k]]
                \* the bins file is written before the loop (line 560)
                bins == [type |-> "bins", mode |-> modes[mode], set_idx |-> 0]
            IN  IF BorneRaises(keep) \/ ContributionRaises(plotted)
                THEN /\ pc' = "raised"
                     /\ UNCHANGED <<plotV, artifacts, ref_sets_def>>
                ELSE \/ \* every fit converges
                        /\ labels_saved' = [k \in 1..Len(plotted) |-> labels[plotted[k]]]
                        /\ plot_files' = [k \in 1..Len(plotted) |-> npy(k)]
                        /\ plot_colors' = [k \in 1..Len(plotted) |-> plotted[k]]
                        /\ contributions' = Bars(sets, keep, plotted, 1, 0, Rat(0, 1))
                        /\ ref_sets_def' = Some(CallerSets(ref_sets_def.v,
                               SetsInLoop(sets, keep, Len(ref_sets_def.v))))
                        /\ artifacts' = artifacts
                               \cup {bins}
                               \cup {npy(k) : k \in 1..Len(plotted)}
                               \cup {[type |-> "plots", mode |-> modes[mode], set_idx |-> 0]}
                        /\ pc' = "save_results"
                     \/ \* the fit of the set plotted[failed] raises RuntimeError
                        \E failed \in 1..Len(plotted) :
                           /\ artifacts' = artifacts
                                  \cup {bins}
                                  \cup {npy(k) : k \in SavedWhenFitFails(failed)}
                           /\ ref_sets_def' = Some(CallerSets(ref_sets_def.v,
                                  SetsInLoop(sets, keep, plotted[failed])))
                           /\ pc' = "raised"
                           /\ UNCHANGED plotV
    /\ UNCHANGED <<cfg, classifV, alti_map, dsm_sets_def, pngV, masksV, mode, mode_stats,
                   stats_results, nb_reconcile, ext_support, sideV>>

\* lines 852-858: save_results with to_csv=True, then the next mode
SaveResults ==
    /\ pc = "save_results"
    /\ stats_results' = Append(stats_results,
           [mode |-> modes[mode],
            results |-> save_results(mode_stats, labels_saved, plot_files, plot_colors)])
    /\ artifacts' = artifacts \cup {[type |-> "json", mode |-> modes[mode], set_idx |-> 0],
                                    [type |-> "csv", mode |-> modes[mode], set_idx |-> 0]}
    /\ IF mode < Len(modes)
       THEN mode' = mode + 1 /\ pc' = "get_stats"
       ELSE mode' = mode /\ pc' = "done"
    /\ UNCHANGED <<cfg, classifV, alti_map, setsV, pngV, masksV, mode_stats, plotV,
                   nb_reconcile, ext_support, sideV>>

-----
(* Inputs *)

\* the strictly increasing sequences of at most n values of the set S
IncreasingSeqs(S, n) ==
    {q \in UNION {[1..k -> S] : k \in 0..n} :
        \A i \in 1..(Len(q) - 1) : q[i] < q[i + 1]}

\* the boundaries class_rad_range is drawn from
Boundaries == {0, 10, 25, 40}
\* class_rad_range: strictly increasing, at least one boundary
ClassRanges == IncreasingSeqs(Boundaries, MaxClasses) \ {<<>>}

\* the nodata value of the elevation-difference raster (alti_map.nodata, set by the
\* raster collaborator); a small value keeps the sums of squares within 32 bits
AltiNodata == {-9}

Rasters(Values, nodata) == {[r |-> f, nodata |-> nodata] : f \in [Pix -> Values]}

\* elevation-difference rasters over the given samples
AltiRasters(Values) == UNION {Rasters(Values, nd) : nd \in AltiNodata}
\* one elevation-difference raster without absent samples: 1, 0, 1, 0, ...
PlainAlti == {[r |-> [p \in Pix |-> Fin(p % 2)], nodata |-> nd] : nd \in AltiNodata}

\* stats_computation is not called directly
NoCall == sc_array = <<>> /\ sc_res = None
\* compare_with_baseline.main is not run
NoCompare ==
    /\ baseline_data = <<>>
    /\ test_data = <<>>
    /\ epsilon = 0
    /\ file_idx = 0
    /\ differences = <<>>
    /\ error = None
\* alti_diff_stats is not run
NoPipeline ==
    /\ cfg = None
    /\ ext_support = None
    /\ alti_map = None
    /\ support_ref = None
    /\ support_dsm = None
    /\ do_classify_results = FALSE
    /\ do_cross_classification = FALSE
    /\ ref_sets_def = None
    /\ dsm_sets_def = None
    /\ ref_png = None
    /\ dsm_png = None
    /\ to_keep_masks = <<>>
    /\ modes = <<>>
    /\ no_outliers_mask = None
    /\ mode = 0
    /\ mode_stats = <<>>
    /\ labels_saved = <<>>
    /\ plot_files = <<>>
    /\ plot_colors = <<>>
    /\ contributions = <<>>
    /\ artifacts = {}
    /\ stats_results = <<>>
    /\ nb_reconcile = 0

\* the state at the call of alti_diff_stats, the inputs drawn from the given sets
InitOver(Types, RefValues, DsmValues, Altis, Ranges) ==
    /\ pc = "set_image"
    /\ cfg \in {c \in [class_type : Types,
                       cross_classification : BOOLEAN,
                       class_rad_range : Ranges,
                       class_support_dsm : BOOLEAN] :
                  /\ c.class_type # "user" => c.class_support_dsm
                  /\ c.class_type = "none" =>
                        c.class_rad_range = CHOOSE q \in Ranges : TRUE}
    /\ ext_support \in {e \in [ref : Rasters(RefValues, SupportNodata),
                               dsm : Rasters(DsmValues, SupportNodata)] :
                          cfg.class_type = "none" =>
                             e = CHOOSE x \in [ref : Rasters(RefValues, SupportNodata),
                                               dsm : Rasters(DsmValues, SupportNodata)] : TRUE}
    /\ alti_map \in Altis
    /\ support_ref = None
    /\ support_dsm = None
    /\ do_classify_results = FALSE
    /\ do_cross_classification = FALSE
    /\ ref_sets_def = None
    /\ dsm_sets_def = None
    /\ ref_png = None
    /\ dsm_png = None
    /\ to_keep_masks = <<>>
    /\ modes = <<>>
    /\ no_outliers_mask = None
    /\ mode = 0
    /\ mode_stats = <<>>
    /\ labels_saved = <<>>
    /\ plot_files = <<>>
    /\ plot_colors = <<>>
    /\ contributions = <<>>
    /\ artifacts = {}
    /\ stats_results = <<>>
    /\ nb_reconcile = 0
    /\ NoCall
    /\ NoCompare

Next ==
    \/ SetImageToClassifyFrom
    \/ CreateSetsRef
    \/ CreateSetsDsm
    \/ CrossClassAlphaBands
    \/ CreateMasks
    \/ GetStats
    \/ PlotHistograms
    \/ SaveResults

\* create_sets over every kind of support sample
SupportValues == {NaN, PInf, NInf, Fin(SupportNodata), Fin(-5), Fin(0), Fin(5), Fin(10), Fin(25)}
InitSets == InitOver({"none", "slope"}, SupportValues, {Fin(5)}, PlainAlti, ClassRanges)
SpecSets == InitSets /\ [][Next]_vars

-------------------------------------------------------------------------\* create_masks and get_stats over every kind of elevation-difference sample
AltiValues == {NaN, PInf, Fin(-9), Fin(0), Fin(1)}
MaskSupportValues == {NaN, Fin(SupportNodata), Fin(5), Fin(10)}
InitMasks == InitOver({"none", "slope"}, MaskSupportValues, {Fin(5)}, AltiRasters(AltiValues),
                      {<<0, 10>>})
SpecMasks == InitMasks /\ [][Next]_vars

\* the reconciliation run once more on the images it has written (the pipeline
\* runs it once; the second run is what the idempotence claim is about)
ReconcileAgain ==
    /\ pc = "create_masks"
    /\ nb_reconcile \in 1..MaxReRun
    /\ LET res == cross_class_apha_bands(ref_png, dsm_png, ref_sets_def.v, dsm_sets_def.v)
       IN  /\ ref_png' = res.ref
           /\ dsm_png' = res.dsm
    /\ nb_reconcile' = nb_reconcile + 1
    /\ UNCHANGED <<pc, cfg, classifV, alti_map, setsV, masksV, mode, mode_stats, plotV, diskV,
                   ext_support, sideV>>

NextReconcile ==
    \/ Next
    \/ ReconcileAgain

\* the prefixes of the boundaries 0, 10, 25, 40
PrefixRanges == {q \in ClassRanges : \A i \in 1..Len(q) : q[i] = <<0, 10, 25, 40>>[i]}
InitReconcile == InitOver({"none", "slope"}, {NaN, Fin(-5), Fin(5), Fin(10)},
                          {Fin(-5), Fin(10)}, PlainAlti, PrefixRanges)
SpecReconcile == InitReconcile /\ [][NextReconcile]_vars

\* alti_diff_stats with one class, with as many classes as getColor has colours,
\* and with one more: the boundaries 0, 1, 2, ...
ManyRanges == {[i \in 1..k |-> i - 1] : k \in {1, MaxColors, MaxColors + 1}}
InitManyClasses == InitOver({"slope"}, {Fin(-5), Fin(0), Fin(19), Fin(25)}, {Fin(0), Fin(19)},
                            PlainAlti, ManyRanges)
SpecManyClasses == InitManyClasses /\ [][Next]_vars

\* alti_diff_stats with 'user' support images; without a second support image
\* the runs are those that request the cross classification
InitUser ==
    /\ InitOver({"user"}, {NaN, Fin(5), Fin(10)}, {Fin(5), Fin(10)}, PlainAlti, {<<0, 10>>})
    /\ ~cfg.class_support_dsm => cfg.cross_classification
SpecUser == InitUser /\ [][Next]_vars

------------------------------------------------------------------------------
(* stats_computation called on an array of its own *)

\* the longest array stats_computation is called on
MaxArrayLen == 5
\* the finite samples of these arrays
ArrayValues == {Fin(1), Fin(2), Fin(3), Fin(4), Fin(100)}

\* the call of stats_computation on sc_array
StatsComputation ==
    /\ pc = "stats_computation"
    /\ sc_res' = Some(stats_computation(sc_array, DOMAIN sc_array))
    /\ pc' = "returned"
    /\ UNCHANGED <<sc_array, pipelineV, cmpV>>

InitStatsComputation ==
    /\ pc = "stats_computation"
    /\ sc_array \in UNION {[1..n -> ArrayValues] : n \in 0..MaxArrayLen}
    /\ sc_res = None
    /\ NoPipeline
    /\ NoCompare

NextStatsComputation == StatsComputation

SpecStatsComputation == InitStatsComputation /\ [][NextStatsComputation]_vars

------------------------------------------------------------------------------
(* compare_with_baseline: check_csv and main *)

\* A CSV file as load_csv returns it is a sequence of lines, the first being the
\* titles.  A line is held as the sequence of its columns, that is what
\* strip('\r\n').split(',') gives; both files end their lines the same way, so two
\* title lines are equal when their columns are.

\* the most CSV files on either side
MaxFiles == 2
\* the most data rows of a CSV file
MaxRows == 2

\* a function returns a value / raises an exception
Returned(x) == [kind |-> "return", v |-> x]
Raised(e) == [kind |-> "raise", v |-> e]

\* the exceptions of check_csv and main
Exception(type, what, csv_file, payload) ==
    [kind |-> "exception", type |-> type, what |-> what, csv_file |-> csv_file, v |-> payload]

\* float(col_value): the number a column text stands for, None when float raises
\* ValueError
float(col_value) ==
    CASE col_value = "0"   -> Fin(0)
      [] col_value = "0.0" -> Fin(0)
      [] col_value = "1"   -> Fin(1)
      [] col_value = "1.0" -> Fin(1)
      [] col_value = "2"   -> Fin(2)
      [] col_value = "3"   -> Fin(3)
      [] col_value = "nan" -> NaN
      [] OTHER             -> None

\* abs(ref - test) on floats
FAbsDiff(ref, test) ==
    IF IsNan(ref) \/ IsNan(test) THEN NaN ELSE Fin(Abs(ref.v - test.v))

\* WithinEpsilon with a strict bound
WithinEpsilonStrict(ref, test, eps) == FLt(FAbsDiff(ref, test), Fin(eps))

\* abs(ref - test) <= epsilon (line 52)
WithinEpsilon(ref, test, eps) == FLe(FAbsDiff(ref, test), Fin(eps))

Min(a, b) == IF a <= b THEN a ELSE b

\* [float(col_value) for col_value in cols[1:len(cols)]] (lines 48-49)
FloatCols(cols) == [j \in 1..(Len(cols) - 1) |-> float(cols[j + 1])]

\* results (line 52): zip stops at the shorter row
RowResults(f_cols_ref, f_cols_test, eps) ==
    [j \in 1..Min(Len(f_cols_ref), Len(f_cols_test)) |->
        WithinEpsilon(f_cols_ref[j], f_cols_test[j], eps)]

\* indices (line 55): the columns, from j on, whose result is False
RECURSIVE FalseIndices(_, _)
FalseIndices(results, j) ==
    IF j > Len(results) THEN <<>>
    ELSE (IF results[j] THEN <<>> ELSE <<j>>) \o FalseIndices(results, j + 1)

\* the pass of the loop of line 37 on line i of both files (lines 39-63): it
\* returns the difference records of the row or raises
RowOutcome(csv_ref, csv_test, csv_file, eps, i) ==
    LET cols_ref    == csv_ref[i]
        cols_test   == csv_test[i]
        f_cols_ref  == FloatCols(cols_ref)
        f_cols_test == FloatCols(cols_test)
        indices     == FalseIndices(RowResults(f_cols_ref, f_cols_test, eps), 1)
    IN  IF cols_ref[1] # cols_test[1]
        THEN Raised(Exception("ValueError", "Inconsistent class name", csv_file, <<>>))
        ELSE IF \/ \E j \in DOMAIN f_cols_ref : IsNone(f_cols_ref[j])
                \/ \E j \in DOMAIN f_cols_test : IsNone(f_cols_test[j])
        THEN Raised(Exception("ValueError", "could not convert string to float", csv_file, <<>>))
        ELSE IF \E k \in DOMAIN indices : indices[k] + 1 > Len(csv_ref[1])
        THEN Raised(Exception("IndexError", "list index out of range", csv_file, <<>>))
        ELSE Returned([k \in DOMAIN indices |->
                          [csv_file     |-> csv_file,
                           class_name   |-> cols_ref[1],
                           stat_name    |-> csv_ref[1][indices[k] + 1],
                           baseline_val |-> f_cols_ref[indices[k]],
                           test_val     |-> f_cols_test[indices[k]]]])

\* the loop of line 37 from line i on, zip stopping at the shorter file
RECURSIVE CheckRows(_, _, _, _, _, _)
CheckRows(csv_ref, csv_test, csv_file, eps, i, csv_differences) ==
    IF i > Min(Len(csv_ref), Len(csv_test)) THEN Returned(csv_differences)
    ELSE LET row == RowOutcome(csv_ref, csv_test, csv_file, eps, i)
         IN  IF row.kind = "raise" THEN row
             ELSE CheckRows(csv_ref, csv_test, csv_file, eps, i + 1, csv_differences \o row.v)

\* check_csv without the comparison of the titles
check_csv_rows_only(csv_ref, csv_test, csv_file, eps) ==
    CheckRows(csv_ref, csv_test, csv_file, eps, 2, <<>>)

\* check_csv
check_csv(csv_ref, csv_test, csv_file, eps) ==
    IF csv_ref[1] # csv_test[1]
    THEN Raised(Exception("ValueError", "Inconsistent stats", csv_file, <<>>))
    ELSE CheckRows(csv_ref, csv_test, csv_file, eps, 2, <<>>)

\* GrownDifferences keeping the differences of the last file only
GrownDifferencesLastOnly(done, csv_differences) == <<csv_differences>>

\* the list the comprehension of lines 101-102 builds, one entry per file pair
GrownDifferences(done, csv_differences) == Append(done, csv_differences)

\* lines 95-98
MainCheckNumber ==
    /\ pc = "main"
    /\ IF Len(baseline_data) # Len(test_data)
       THEN /\ error' = Exception("ValueError", "Inconsistent number of csv files", 0, <<>>)
            /\ pc' = "raised"
            /\ file_idx' = file_idx
       ELSE /\ error' = error
            /\ file_idx' = 1
            /\ pc' = IF Len(baseline_data) = 0 THEN "report" ELSE "check_csv"
    /\ UNCHANGED <<baseline_data, test_data, epsilon, differences, pipelineV, callV>>

\* lines 101-102: one pass of the comprehension; when check_csv raises the list
\* built so far is dropped with the comprehension
CheckCsv ==
    /\ pc = "check_csv"
    /\ LET res == check_csv(baseline_data[file_idx], test_data[file_idx], file_idx, epsilon)
       IN  IF res.kind = "raise"
           THEN /\ error' = res.v
                /\ differences' = <<>>
                /\ pc' = "raised"
                /\ file_idx' = file_idx
           ELSE /\ error' = error
                /\ differences' = GrownDifferences(differences, res.v)
                /\ file_idx' = file_idx + 1
                /\ pc' = IF file_idx = Len(baseline_data) THEN "report" ELSE "check_csv"
    /\ UNCHANGED <<baseline_data, test_data, epsilon, pipelineV, callV>>

\* lines 104-108
MainReport ==
    /\ pc = "report"
    /\ IF \E i \in DOMAIN differences : Len(differences[i]) # 0
       THEN /\ error' = Exception("ValueError", "Invalid results", 0, differences)
            /\ pc' = "raised"
       ELSE /\ error' = error
            /\ pc' = "done"
    /\ UNCHANGED <<baseline_data, test_data, epsilon, file_idx, differences, pipelineV, callV>>

NextCompare ==
    \/ MainCheckNumber
    \/ CheckCsv
    \/ MainReport

\* the state at the call of main, the file lists and the tolerance drawn from the
\* given sets
InitCompare(FileLists, Epsilons) ==
    /\ pc = "main"
    /\ \E l \in FileLists : baseline_data = l.ref /\ test_data = l.test
    /\ epsilon \in Epsilons
    /\ file_idx = 0
    /\ differences = <<>>
    /\ error = None
    /\ NoPipeline
    /\ NoCall

\* the titles of the files
Titles == <<"Set Name", "Max Error", "Min Error">>
\* the class name of the data row of rank i
RowName(i) == IF i = 1 THEN "All classes considered" ELSE IF i = 2 THEN "[0; 10[" ELSE "[10; inf["

\* a pair of files with the same titles and class names and every mix of cells:
\* equal, equal as numbers only, apart by 1, apart by 2, NaN on one or both sides
CellPairs ==
    {[ref |-> <<b1, b2>>, test |-> <<t1, t2>>] :
        b1 \in {"0"}, b2 \in {"1", "nan"}, t1 \in {"0.0", "1", "nan"}, t2 \in {"1", "2", "3", "nan"}}
RichFilePairs ==
    UNION {{[ref  |-> <<Titles>> \o [i \in 1..n |-> <<RowName(i)>> \o cells[i].ref],
             test |-> <<Titles>> \o [i \in 1..n |-> <<RowName(i)>> \o cells[i].test]] :
               cells \in [1..n -> CellPairs]} : n \in 0..MaxRows}

\* a few pairs of one-row and two-row files: identical, one cell apart, two cells
\* apart, other titles, another class name, another class name after a row that
\* holds a difference
PlainFilePairs ==
    LET row(i, a, b) == <<RowName(i), a, b>>
        ref2 == <<Titles, row(1, "0", "1"), row(2, "0", "1")>>
    IN  {[ref |-> ref2, test |-> ref2],
         [ref |-> ref2, test |-> <<Titles, row(1, "0", "1"), row(2, "2", "1")>>],
         [ref |-> ref2, test |-> <<Titles, row(1, "2", "1"), row(2, "0", "nan")>>],
         [ref |-> ref2, test |-> <<<<"Set Name", "Max Error", "RMSE">>, row(1, "2", "1"), row(2, "0", "1")>>],
         [ref |-> ref2, test |-> <<Titles, row(2, "0", "1"), row(1, "0", "1")>>],
         [ref |-> ref2, test |-> <<Titles, row(1, "2", "1"), row(3, "0", "1")>>]}

\* the lists of at most MaxFiles file pairs
PairLists(FilePairs) == UNION {[1..n -> FilePairs] : n \in 0..MaxFiles}

\* both sides of a list of file pairs, the run under test having every file or
\* missing the last one
FileLists(FilePairs) ==
    {[ref  |-> [i \in DOMAIN l |-> l[i].ref],
      test |-> [i \in 1..(Len(l) - missing) |-> l[i].test]] :
        l \in PairLists(FilePairs), missing \in {0, 1}}

\* both sides of a single file pair
SingleFileLists(FilePairs) == {[ref |-> <<f.ref>>, test |-> <<f.test>>] : f \in FilePairs}

\* one pair of files with every mix of cells, or several plain pairs
InitCompareFiles ==
    InitCompare(SingleFileLists(RichFilePairs) \cup FileLists(PlainFilePairs), {0, 1})

SpecCompare == InitCompareFiles /\ [][NextCompare]_vars

\* files of every shape: the rows a file is made of are a row of numbers, a row
\* with the not-a-number of an empty class, a row of another class with a cell
\* that is no number, and a row that lacks its last column
ShapeRows == {<<RowName(1), "0.0", "1.0">>,
              <<RowName(1), "nan", "1.0">>,
              <<RowName(2), "abc", "1.0">>,
              <<RowName(1), "0.0">>}
\* the titles of a file with another statistic
OtherTitles == <<"Set Name", "Max Error", "RMSE">>
\* the files of at most MaxRows rows under one of the given titles
ShapeFiles(TitleLines) ==
    {<<titles>> \o rows : titles \in TitleLines,
                          rows \in UNION {[1..n -> ShapeRows] : n \in 0..MaxRows}}
\* a baseline file and a test file of any two shapes
ShapeFilePairs ==
    {[ref |-> csv_ref, test |-> csv_test] :
        csv_ref \in ShapeFiles({Titles}), csv_test \in ShapeFiles({Titles, OtherTitles})}

InitCompareShapes == InitCompare(SingleFileLists(ShapeFilePairs), {0, 1})

SpecCompareShapes == InitCompareShapes /\ [][NextCompare]_vars

-----
(* Claims on create_sets *)

\* create_sets has returned the reference class grids
RefSetsCreated == ~IsNone(ref_sets_def)

\* a support sample that is finite and not the nodata value
ValidSample(img, p) == IsFinite(img.r[p]) /\ img.r[p].v # img.nodata

\* the classes a pixel is True in
ClassesOf(sets, p) == {i \in 1..Len(sets) : sets[i][p]}

\* C1: create_sets returns one grid per boundary, and every pixel whose support
\* value is finite and not nodata is True in exactly one grid, also when the
\* value lies below the first boundary.
C1_Partition ==
    RefSetsCreated =>
        /\ Len(ref_sets_def.v) = Len(cfg.class_rad_range)
        /\ \A p \in Pix :
              ValidSample(support_ref, p) =>
                 Cardinality(ClassesOf(ref_sets_def.v, p)) = 1

\* C2: a pixel whose support value is NaN, +infinity, -infinity or the nodata
\* value is False in every class grid.
C2_NonFiniteExcluded ==
    RefSetsCreated =>
        \A p \in Pix :
           ~ValidSample(support_ref, p) => ClassesOf(ref_sets_def.v, p) = {}

\* C3: intervals are lower-inclusive and upper-exclusive: a valid value v is in
\* class i < n iff b_i <= v < b_(i+1), and in the last class iff v >= b_n; with
\* boundaries [0, 10, 25] the value 10 is in the second class only and 25 in the
\* third class only.
C3_HalfOpenIntervals ==
    RefSetsCreated =>
        LET b == cfg.class_rad_range
            n == Len(b)
        IN  \A p \in Pix :
               ValidSample(support_ref, p) =>
                  LET v == support_ref.r[p].v
                  IN  /\ \A i \in 1..n :
                            ref_sets_def.v[i][p] <=>
                               IF i < n THEN b[i] <= v /\ v < b[i + 1] ELSE b[n] <= v
                      /\ b = <<0, 10, 25>> /\ v = 10 => ClassesOf(ref_sets_def.v, p) = {2}
                      /\ b = <<0, 10, 25>> /\ v = 25 => ClassesOf(ref_sets_def.v, p) = {3}

\* boundaries [0, 10, 25], one pixel at exactly 10 and one at exactly 25
C3_Witness ==
    /\ RefSetsCreated
    /\ cfg.class_rad_range = <<0, 10, 25>>
    /\ \E p \in Pix : support_ref.r[p] = Fin(10) /\ ClassesOf(ref_sets_def.v, p) = {2}
    /\ \E p \in Pix : support_ref.r[p] = Fin(25) /\ ClassesOf(ref_sets_def.v, p) = {3}

------------------------------------------------------------------------------
(* Claims on create_masks *)

\* create_masks has returned
MasksCreated == modes # <<>>

\* C4: the 'standard' mask is True iff the difference value is finite and not
\* nodata and, with classification active, the reference support value is finite
\* and not nodata; a NaN or an infinite value makes the pixel False.
C4_StandardMaskFinite ==
    MasksCreated =>
        \A p \in Pix :
           to_keep_masks[1][p] <=>
              /\ ValidSample(alti_map, p)
              /\ do_classify_results => ValidSample(support_ref, p)

\* C5: the outlier mask keeps exactly the values strictly inside
\* (mu - 3 sigma, mu + 3 sigma), mu and sigma being taken over exactly the pixels
\* of the 'standard' mask create_masks returns.
C5_OutliersOverStandardMask ==
    MasksCreated =>
        no_outliers_mask.v = get_ouliersfree_mask(alti_map.r, to_keep_masks[1])

\* C6: the 'coherent-classification' and 'incoherent-classification' masks are
\* disjoint at every pixel and their union is the 'standard' mask.
C6_CoherentIncoherentSplit ==
    Len(modes) = 3 =>
        \A p \in Pix :
           /\ ~(to_keep_masks[2][p] /\ to_keep_masks[3][p])
           /\ (to_keep_masks[2][p] \/ to_keep_masks[3][p]) <=> to_keep_masks[1][p]

\* three modes, a pixel in the coherent mask, one in the incoherent mask
C6_Witness ==
    /\ Len(modes) = 3
    /\ \E p \in Pix : to_keep_masks[2][p]
    /\ \E p \in Pix : to_keep_masks[3][p]

\* C7: modes is ['standard'] with one mask when classification or
\* cross-classification is inactive, and ['standard', 'coherent-classification',
\* 'incoherent-classification'] with three masks when both are active; modes and
\* masks have equal length, 'standard' comes first and masks[k] is the mask of
\* modes[k].
C7_ModesAndMasks ==
    MasksCreated =>
        LET std == [p \in Pix |->
                       /\ ~IsNan(alti_map.r[p]) /\ alti_map.r[p] # Fin(alti_map.nodata)
                       /\ do_classify_results =>
                             /\ ~IsNan(support_ref.r[p])
                             /\ support_ref.r[p] # Fin(support_ref.nodata)]
        IN  /\ Len(modes) = Len(to_keep_masks)
            /\ modes[1] = "standard"
            /\ to_keep_masks[1] = std
            /\ IF do_classify_results /\ do_cross_classification
               THEN /\ modes = <<"standard", "coherent-classification",
                                 "incoherent-classification">>
                    /\ to_keep_masks[2] = [p \in Pix |-> std[p] /\ ref_png[p][4] # 0]
                    /\ to_keep_masks[3] = [p \in Pix |-> std[p] /\ ref_png[p][4] = 0]
               ELSE modes = <<"standard">>

\* create_masks has returned one mode with classification active, cross inactive
C7_Witness ==
    /\ MasksCreated
    /\ do_classify_results /\ ~do_cross_classification
    /\ modes = <<"standard">>
    /\ \E p \in Pix : to_keep_masks[1][p]

------------------------------------------------------------------------------
(* Claims on cross_class_apha_bands *)

\* some pair of sets differs at the pixel
Disagree(p) ==
    \E i \in 1..Len(ref_sets_def.v) : ref_sets_def.v[i][p] # dsm_sets_def.v[i][p]

\* C8: after cross_class_apha_bands, in both images, the alpha of a pixel is 0 if
\* ref_sets[i] and dsm_sets[i] differ there for some i, and its prior alpha if they
\* agree for every i; no other channel and no other pixel changes.
C8_AlphaClearedWhereSetsDiffer ==
    [][nb_reconcile' # nb_reconcile =>
          \A p \in Pix :
             /\ ref_png'[p] = <<ref_png[p][1], ref_png[p][2], ref_png[p][3],
                                IF Disagree(p) THEN 0 ELSE ref_png[p][4]>>
             /\ dsm_png'[p] = <<dsm_png[p][1], dsm_png[p][2], dsm_png[p][3],
                                IF Disagree(p) THEN 0 ELSE dsm_png[p][4]>>]_vars

\* reconciled: a coloured pixel made transparent by a disagreement, and a pixel in
\* no class on both sides that kept its opaque alpha
C8_Witness ==
    /\ nb_reconcile >= 1
    /\ \E p \in Pix : Disagree(p) /\ ref_png[p][4] = 0 /\ ref_png[p][1] \notin {0, Opaque}
    /\ \E p \in Pix : /\ ~Disagree(p)
                      /\ ClassesOf(ref_sets_def.v, p) = {}
                      /\ ref_png[p][4] = Opaque /\ dsm_png[p][4] = Opaque

\* C9: running cross_class_apha_bands again on the reconciled images with the
\* same sets leaves every alpha value of both images unchanged.
C9_ReconcileIdempotent ==
    [][nb_reconcile >= 1 /\ nb_reconcile' # nb_reconcile =>
          \A p \in Pix : ref_png'[p][4] = ref_png[p][4] /\ dsm_png'[p][4] = dsm_png[p][4]]_vars

\* the reconciliation has run twice and some pixel is transparent by disagreement
C9_Witness ==
    /\ nb_reconcile = 2
    /\ \E p \in Pix : Disagree(p) /\ ref_png[p][4] = 0 /\ dsm_png[p][4] = 0
    /\ \E p \in Pix : ~Disagree(p) /\ ref_png[p][4] = Opaque

------------------------------------------------------------------------------
(* Claims on get_stats *)

\* get_stats has returned for the mode being processed
StatsComputed == pc \in {"plot_histograms", "save_results"}

\* C10: the first record is the 'all' record over the pixels where keep mask and
\* outlier mask are True; then one record per class in class order, record i+1
\* over the pixels where class i, keep mask and outlier mask are True, with label
\* i and name i; without classes the list has exactly one record.
C10_RecordsPerClass ==
    StatsComputed =>
        LET kept == {p \in Pix : to_keep_masks[mode][p] /\ no_outliers_mask.v[p]}
        IN  /\ mode_stats[1].stats = stats_computation(alti_map.r, kept)
            /\ mode_stats[1].set_label = [kind |-> "all"]
            /\ IF do_classify_results
               THEN /\ Len(mode_stats) = 1 + Len(ref_sets_def.v)
                    /\ \A i \in 1..Len(ref_sets_def.v) :
                          /\ mode_stats[i + 1].stats =
                                stats_computation(alti_map.r,
                                                  {p \in kept : ref_sets_def.v[i][p]})
                          /\ mode_stats[i + 1].set_label =
                                sets_labels(cfg.class_type, cfg.class_rad_range)[i]
                          /\ mode_stats[i + 1].set_name = sets_names(cfg.class_rad_range)[i]
               ELSE Len(mode_stats) = 1

\* a class record with pixels, and a class whose record is empty although the
\* class has a pixel (the keep mask took it out)
C10_Witness ==
    /\ StatsComputed
    /\ do_classify_results
    /\ \E i \in 1..Len(ref_sets_def.v) : mode_stats[i + 1].stats.nbpts >= 1
    /\ \E i \in 1..Len(ref_sets_def.v) :
          /\ mode_stats[i + 1].stats.nbpts = 0
          /\ \E p \in Pix : ref_sets_def.v[i][p] /\ no_outliers_mask.v[p]

\* the pixels the keep mask of the mode being processed gives record k of
\* mode_stats (record 1 is the 'all' record, record k > 1 the one of class k - 1)
KeepPopulation(k) ==
    {p \in Pix : to_keep_masks[mode][p] /\ (k = 1 \/ ref_sets_def.v[k - 1][p])}

\* the fields of a record that stats_computation fills, but the count
SentinelFields(r) ==
    {r.stats.max, r.stats.min, r.stats.mean, r.stats.std, r.stats.rmse,
     r.stats.median, r.stats.nmad, r.stats.sum_err, r.stats.sum_err_err}

\* C11 as stated: get_stats returns, and in every record whose count is 0 the
\* percent is 0 and max, min, mean, std, rmse, median, nmad, sum, sum of squares
\* and the 90th percentile are all NaN.
C11_EmptyRecordAllSentinel ==
    StatsComputed =>
        \A k \in 1..Len(mode_stats) :
           mode_stats[k].stats.nbpts = 0 =>
              /\ mode_stats[k].percent.num = 0
              /\ \A x \in SentinelFields(mode_stats[k]) : IsNan(x)
              /\ IsNan(mode_stats[k].p90)

\* C11 amended: get_stats returns, and in every record whose count is 0 the
\* percent is 0 and max, min, mean, std, rmse, median, nmad, sum and sum of
\* squares are NaN; the 90th percentile, which keeps the outliers, is NaN when
\* the keep mask leaves the record no pixel and a finite number when it leaves
\* it finite values only.
C11_EmptyRecordSentinelButPercentile ==
    StatsComputed =>
        \A k \in 1..Len(mode_stats) :
           mode_stats[k].stats.nbpts = 0 =>
              /\ mode_stats[k].percent.num = 0
              /\ \A x \in SentinelFields(mode_stats[k]) : IsNan(x)
              /\ KeepPopulation(k) = {} => IsNan(mode_stats[k].p90)
              /\ (KeepPopulation(k) # {} /\ \A p \in KeepPopulation(k) : IsFinite(alti_map.r[p]))
                     => IsFinite(mode_stats[k].p90)

\* get_stats has returned a record of count 0 for a class without pixels and a
\* record of count 0 whose pixels were all taken out by the outlier mask
C11_Witness ==
    /\ StatsComputed
    /\ \E k \in 1..Len(mode_stats) :
          mode_stats[k].stats.nbpts = 0 /\ KeepPopulation(k) = {} /\ IsNan(mode_stats[k].p90)
    /\ \E k \in 1..Len(mode_stats) :
          mode_stats[k].stats.nbpts = 0 /\ KeepPopulation(k) # {} /\ IsFinite(mode_stats[k].p90)

\* C12: for a difference raster that is all zeros but one pixel equal to nodata,
\* with no classification, the 'standard' mask is True at exactly the other
\* pixels and the 'all' record computed from the masks create_masks returns has
\* count = (number of pixels - 1), mean = std = rmse = median = nmad = 0 and
\* percent = 100 * count / (number of pixels) (15 and 93.75 for 16 pixels).
C12_AllZeroButOneNodata ==
    \A q \in Pix :
       (/\ StatsComputed /\ mode = 1 /\ ~do_classify_results
        /\ alti_map.r = [p \in Pix |-> IF p = q THEN Fin(alti_map.nodata) ELSE Fin(0)])
       => /\ to_keep_masks[1] = [p \in Pix |-> p # q]
          /\ mode_stats[1].stats.nbpts = NPix - 1
          /\ \A x \in {mode_stats[1].stats.mean, mode_stats[1].stats.std,
                        mode_stats[1].stats.rmse, mode_stats[1].stats.median,
                        mode_stats[1].stats.nmad} : x.kind # "nan" /\ x.num = 0
          /\ mode_stats[1].percent.num * NPix = 100 * (NPix - 1) * mode_stats[1].percent.den

\* C13: in every record the 90th percentile is computed over the pixels of the
\* keep mask (of the class, for a class record) without the outlier mask, and
\* count, max, min, mean, std, rmse, median and nmad over those of them the
\* outlier mask keeps.
C13_PercentileKeepsOutliers ==
    StatsComputed =>
        \A k \in 1..Len(mode_stats) :
           /\ mode_stats[k].p90 = nighty_percentile(alti_map.r, KeepPopulation(k))
           /\ mode_stats[k].stats =
                 stats_computation(alti_map.r,
                                   {p \in KeepPopulation(k) : no_outliers_mask.v[p]})

\* a class record whose percentile has samples the outlier mask took out of its
\* other statistics, the keep mask having taken a pixel out of both
C13_Witness ==
    /\ StatsComputed
    /\ \E p \in Pix : ~to_keep_masks[mode][p]
    /\ \E k \in 2..Len(mode_stats) :
          /\ \E p \in KeepPopulation(k) : ~no_outliers_mask.v[p]
          /\ IsFinite(mode_stats[k].p90)
          /\ mode_stats[k].stats.nbpts = 0

\* C14: in every record percent = 100 * count / (number of pixels of the whole
\* array), for the 'all' record and every class record in every mode, so
\* 0 <= percent <= 100.
C14_PercentOfFullArray ==
    StatsComputed =>
        \A k \in 1..Len(mode_stats) :
           LET r == mode_stats[k]
           IN  /\ r.percent.num * NPix = 100 * r.stats.nbpts * r.percent.den
               /\ 0 <= r.percent.num
               /\ r.percent.num <= 100 * r.percent.den

\* the 'all' record of the coherent mode counts every pixel of the mode's mask,
\* which is not the whole array
C14_Witness ==
    /\ StatsComputed
    /\ mode = 2
    /\ mode_stats[1].stats.nbpts = Cardinality(Where(to_keep_masks[2]))
    /\ mode_stats[1].stats.nbpts \in 1..(NPix - 1)
    /\ \E k \in 2..Len(mode_stats) : mode_stats[k].stats.nbpts = mode_stats[1].stats.nbpts

------------------------------------------------------------------------------
(* Claims on stats_computation *)

\* the k-th smallest value of the sequence s
OrderStat(s, k) ==
    CHOOSE x \in {s[i] : i \in DOMAIN s} :
        /\ Cardinality({i \in DOMAIN s : s[i] < x}) < k
        /\ k <= Cardinality({i \in DOMAIN s : s[i] <= x})

\* twice the median of the non-empty sequence s: the middle order statistic, or
\* the mean of the two middle ones
TwiceMedian(s) ==
    IF Len(s) % 2 = 1
    THEN 2 * OrderStat(s, (Len(s) + 1) \div 2)
    ELSE OrderStat(s, Len(s) \div 2) + OrderStat(s, Len(s) \div 2 + 1)

\* C15: for a non-empty array v of finite values stats_computation returns
\* nmad = 1.4826 * median(|v - median(v)|), the median being the middle order
\* statistic (the mean of the two middle ones for an even length); for
\* [1, 2, 3, 4, 100] the median is 3 and nmad is 1.4826.
C15_Nmad ==
    (~IsNone(sc_res) /\ sc_array # <<>>) =>
        LET v  == [i \in DOMAIN sc_array |-> sc_array[i].v]
            \* twice the distance of every value to the median
            d2 == [i \in DOMAIN v |-> Abs(2 * v[i] - TwiceMedian(v))]
        IN  /\ sc_res.v.median = Rat(TwiceMedian(v), 2)
            \* TwiceMedian(d2) is four times median(|v - median(v)|)
            /\ sc_res.v.nmad = Rat(14826 * TwiceMedian(d2), 40000)
            /\ v = <<1, 2, 3, 4, 100>> =>
                  sc_res.v.median = Rat(3, 1) /\ sc_res.v.nmad = Rat(14826, 10000)

\* stats_computation has returned for [1, 2, 3, 4, 100]
C15_Witness ==
    /\ ~IsNone(sc_res)
    /\ sc_array = <<Fin(1), Fin(2), Fin(3), Fin(4), Fin(100)>>
    /\ sc_res.v.nmad = Rat(14826, 10000)

------------------------------------------------------------------------------
(* Claims on the number of classes *)

\* a step of create_sets: it raises and leaves no grids and no image, or returns
\* one grid per boundary
CreateSetsStep ==
    pc \in {"create_sets_ref", "create_sets_dsm"} =>
        IF Len(cfg.class_rad_range) > 20
        THEN /\ pc' = "raised"
             /\ UNCHANGED <<ref_sets_def, dsm_sets_def, ref_png, dsm_png, artifacts>>
        ELSE /\ Len(cfg.class_rad_range) \in 1..20
             /\ pc' # "raised"
             /\ pc = "create_sets_ref" => Len(ref_sets_def'.v) = Len(cfg.class_rad_range)
             /\ pc = "create_sets_dsm" => Len(dsm_sets_def'.v) = Len(cfg.class_rad_range)

\* C16: create_sets fails, returning no class grids and writing no image, when
\* more than 20 boundaries are requested, and does not fail with 1 to 20.
C16_TooManyClassesRaise == [][CreateSetsStep]_vars

\* create_sets has raised on 21 boundaries: no class grids, nothing written
C16_Witness ==
    /\ pc = "raised"
    /\ Len(cfg.class_rad_range) = 21
    /\ IsNone(ref_sets_def)
    /\ artifacts = {}

------------------------------------------------------------------------------
(* Claims on the failures of alti_diff_stats *)

\* the step of plot_histograms in which a fit fails to converge: it raises although
\* there are sets and the selection is not empty
FitFails ==
    /\ pc = "plot_histograms"
    /\ pc' = "raised"
    /\ ~IsNone(ref_sets_def)
    /\ \E p \in Pix : to_keep_masks[mode][p] /\ no_outliers_mask.v[p]

\* the files of the kind type written for the mode of index k
FilesOf(files, type, k) == {a \in files : a.type = type /\ a.mode = modes[k]}

\* a step of alti_diff_stats: when a fit fails for the set f, the run ends raised
\* with no histogram of the set f or of a later set, no figure, no stats JSON or
\* CSV of the mode or of a later mode, and no result added; once raised the run
\* does nothing more
FitFailureStep ==
    /\ FitFails =>
          /\ \E f \in 0..Len(ref_sets_def.v) :
                /\ f = 0 \/ \E p \in Pix : /\ ref_sets_def.v[f][p]
                                            /\ to_keep_masks[mode][p]
                                            /\ no_outliers_mask.v[p]
                /\ \A a \in FilesOf(artifacts', "npy", mode) : a.set_idx < f
          /\ FilesOf(artifacts', "plots", mode) = {}
          /\ \A k \in mode..Len(modes) :
                FilesOf(artifacts', "json", k) = {} /\ FilesOf(artifacts', "csv", k) = {}
          /\ stats_results' = stats_results
          /\ Len(stats_results) = mode - 1
    /\ pc = "raised" => UNCHANGED vars

\* C19: when the Gaussian fit fails for a class, plot_histograms re-raises and
\* alti_diff_stats propagates the error without retry; processing stops at that
\* class, with no histogram artifact for it and no stats JSON or CSV for the mode
\* being processed or for any later mode.
C19_FitFailureAborts == [][FitFailureStep]_vars

\* the run has raised in its second mode after the histogram of the 'all' set was
\* saved: the first mode has its JSON and CSV, the second has none
C19_Witness ==
    /\ pc = "raised"
    /\ mode = 2
    /\ Len(modes) = 3
    /\ \E a \in FilesOf(artifacts, "npy", 2) : a.set_idx = 0
    /\ \E p \in Pix : \E i \in 1..Len(ref_sets_def.v) :
          ref_sets_def.v[i][p] /\ to_keep_masks[2][p] /\ no_outliers_mask.v[p]
    /\ FilesOf(artifacts, "npy", 2) = {[type |-> "npy", mode |-> modes[2], set_idx |-> 0]}
    /\ FilesOf(artifacts, "json", 1) # {}
    /\ FilesOf(artifacts, "json", 2) = {}
    /\ Len(stats_results) = 1

\* the step of set_image_to_classify_from with 'user' supports, no second
\* support image and the cross classification requested
UserWithoutSecondSupport ==
    /\ pc = "set_image"
    /\ cfg.class_type = "user"
    /\ cfg.cross_classification
    /\ ~cfg.class_support_dsm

\* a step of alti_diff_stats: set_image_to_classify_from does not fail on a missing
\* second 'user' support and turns the cross classification off; afterwards only
\* the reference classification is built and create_masks gives one mode
DegradedStep ==
    /\ UserWithoutSecondSupport =>
          /\ pc' = "create_sets_ref"
          /\ do_classify_results'
          /\ ~do_cross_classification'
          /\ ~cfg'.cross_classification
          /\ IsNone(support_dsm')
    /\ (cfg.class_type = "user" /\ ~cfg.class_support_dsm) =>
          /\ pc' \notin {"create_sets_dsm", "cross_class"}
          /\ IsNone(dsm_sets_def')
          /\ nb_reconcile' = 0
          /\ pc = "create_sets_ref" => ~IsNone(ref_sets_def') /\ pc' = "create_masks"
          /\ pc = "create_masks" => modes' = <<"standard">> /\ Len(to_keep_masks') = 1

\* C20: with class_type 'user', cross classification requested and no secondary
\* support image, set_image_to_classify_from does not fail: classification is
\* active, cross classification is False (also in the configuration), the later
\* stages build only the reference classification and create_masks gives the
\* single mode 'standard'.
C20_MissingSecondSupportDegrades == [][DegradedStep]_vars

\* such a run has ended with the reference classes and the single mode saved
C20_Witness ==
    /\ pc = "done"
    /\ cfg.class_type = "user"
    /\ ~cfg.class_support_dsm
    /\ ~cfg.cross_classification
    /\ ~IsNone(ref_sets_def)
    /\ IsNone(dsm_sets_def)
    /\ modes = <<"standard">>
    /\ Len(stats_results) = 1

------------------------------------------------------------------------------
(* Claims on compare_with_baseline *)

\* the data rows both files of the pair i have
PairedRows(i) == 2..Min(Len(baseline_data[i]), Len(test_data[i]))

\* the numeric columns both rows r of the pair i have
PairedCols(i, r) == 1..(Min(Len(baseline_data[i][r]), Len(test_data[i][r])) - 1)

\* the numbers of the cell (r, j) of the pair i
BaselineCell(i, r, j) == float(baseline_data[i][r][j + 1])
TestCell(i, r, j) == float(test_data[i][r][j + 1])

\* |baseline - test| > eps and |baseline - test| <= eps for the cell (r, j)
BeyondEpsilon(i, r, j) ==
    FLt(Fin(epsilon), FAbsDiff(BaselineCell(i, r, j), TestCell(i, r, j)))
UpToEpsilon(i, r, j) ==
    FLe(FAbsDiff(BaselineCell(i, r, j), TestCell(i, r, j)), Fin(epsilon))

\* the records of diffs that name the cell (r, j) of the pair i
RecordsOf(diffs, i, r, j) ==
    {k \in DOMAIN diffs :
        /\ diffs[k].csv_file = i
        /\ diffs[k].class_name = baseline_data[i][r][1]
        /\ diffs[k].stat_name = baseline_data[i][1][j + 1]}

\* every cell of the pair i beyond epsilon has exactly one record in diffs
AllBeyondReported(diffs, i) ==
    \A r \in PairedRows(i) : \A j \in PairedCols(i, r) :
       BeyondEpsilon(i, r, j) => Cardinality(RecordsOf(diffs, i, r, j)) = 1

\* C17: check_csv compares each data row of the baseline with the same row of the
\* test file column by column and returns exactly one difference record per
\* (row, numeric column) with |baseline - test| > epsilon and none for the cells
\* with |baseline - test| <= epsilon; a record's 'stat name' is the title of the
\* differing column and its 'class name' the first column of the row.
C17_OneRecordPerDifferingCell ==
    \A i \in DOMAIN differences :
       /\ AllBeyondReported(differences[i], i)
       /\ \A r \in PairedRows(i) : \A j \in PairedCols(i, r) :
             UpToEpsilon(i, r, j) => RecordsOf(differences[i], i, r, j) = {}
       /\ \A k \in DOMAIN differences[i] :
             \E r \in PairedRows(i) : \E j \in PairedCols(i, r) :
                /\ ~UpToEpsilon(i, r, j)
                /\ differences[i][k].class_name = baseline_data[i][r][1]
                /\ differences[i][k].stat_name = baseline_data[i][1][j + 1]
                /\ differences[i][k].baseline_val = BaselineCell(i, r, j)
                /\ differences[i][k].test_val = TestCell(i, r, j)

\* check_csv has returned, with epsilon = 1, a single record, for the second
\* column of the second row, the two numbers 1 apart in the first column of that
\* row giving none
C17_Witness ==
    /\ epsilon = 1
    /\ Len(differences) = 1
    /\ Len(differences[1]) = 1
    /\ differences[1][1].class_name = RowName(2)
    /\ differences[1][1].stat_name = "Min Error"
    /\ differences[1][1].baseline_val = Fin(1)
    /\ differences[1][1].test_val = Fin(3)
    /\ FAbsDiff(BaselineCell(1, 3, 1), TestCell(1, 3, 1)) = Fin(1)

\* the titles or a paired class name of the pair i differ
IdentityDiffers(i) ==
    \/ baseline_data[i][1] # test_data[i][1]
    \/ \E r \in PairedRows(i) : baseline_data[i][r][1] # test_data[i][r][1]

\* main has raised on files in equal number
MainRaised == pc = "raised" /\ Len(baseline_data) = Len(test_data) /\ ~IsNone(error)

\* the error of main holds the differing cells of every pair
ErrorHoldsAllCells ==
    /\ error.what = "Invalid results"
    /\ Len(error.v) = Len(baseline_data)
    /\ \A i \in DOMAIN baseline_data :
          IdentityDiffers(i) \/ AllBeyondReported(error.v[i], i)

\* C18 as stated: when the files differ, in class or stat identity or in numbers
\* beyond epsilon, main examines every pair and its single error reports every
\* discrepancy of the run.
C18_ErrorReportsEverything ==
    MainRaised => ErrorHoldsAllCells

\* C18 amended: when no pair differs in titles or class names, main examines
\* every pair and, if some cell differs beyond epsilon, raises one error that
\* holds the differing cells of every pair; when some pair differs in titles or
\* in a class name, check_csv raises for the first such pair and main ends with
\* that error alone, which holds no differing cell.
C18_CellsAggregatedIdentityFailsFast ==
    MainRaised =>
        LET bad == {i \in DOMAIN baseline_data : IdentityDiffers(i)}
        IN  IF bad = {}
            THEN ErrorHoldsAllCells
            ELSE /\ error.what \in {"Inconsistent stats", "Inconsistent class name"}
                 /\ error.csv_file \in bad
                 /\ \A i \in bad : error.csv_file <= i
                 /\ error.v = <<>>

\* main has raised one error for two pairs of files, with the differing cells of
\* both
C18_Witness ==
    /\ MainRaised
    /\ error.what = "Invalid results"
    /\ Len(error.v) = 2
    /\ Len(error.v[1]) >= 1
    /\ Len(error.v[2]) >= 2

------------------------------------------------------------------------------
(* Claims on the order of alti_diff_stats *)

\* both classified images are reconciled with the sets: the alpha of every pixel
\* at which some pair of sets differs is 0
Reconciled ==
    /\ ref_png = SetAlpha(ref_png, ref_sets_def.v, dsm_sets_def.v)
    /\ dsm_png = SetAlpha(dsm_png, ref_sets_def.v, dsm_sets_def.v)

\* a step of cross_class_apha_bands finds both sets created and writes both
\* images; a step of create_masks with both classifications on finds the images
\* reconciled
OrderedStep ==
    /\ (pc = "cross_class" /\ pc' # pc) =>
          /\ ~IsNone(ref_sets_def) /\ ~IsNone(dsm_sets_def)
          /\ pc' = "create_masks"
          /\ nb_reconcile' = nb_reconcile + 1
          /\ ref_png' = SetAlpha(ref_png, ref_sets_def.v, dsm_sets_def.v)
          /\ dsm_png' = SetAlpha(dsm_png, ref_sets_def.v, dsm_sets_def.v)
    /\ (pc = "create_masks" /\ pc' # pc /\ do_classify_results /\ do_cross_classification) =>
          /\ ~IsNone(ref_sets_def) /\ ~IsNone(dsm_sets_def)
          /\ nb_reconcile >= 1
          /\ Reconciled

\* C21: with classification and cross-classification active, both classified
\* images are created before cross_class_apha_bands runs, and
\* cross_class_apha_bands has written both images before create_masks reads the
\* alpha channel of the reference image: create_masks never reads an alpha
\* channel that has not been reconciled.
C21_ReconciledBeforeMasks == [][OrderedStep]_vars

\* create_masks has returned three modes from images in which the reconciliation
\* cleared the alpha of a pixel
C21_Witness ==
    /\ pc = "get_stats"
    /\ do_classify_results /\ do_cross_classification
    /\ Len(modes) = 3
    /\ nb_reconcile = 1
    /\ \E p \in Pix : Disagree(p) /\ ref_png[p][4] = 0 /\ to_keep_masks[3][p]
    /\ \E p \in Pix : ~Disagree(p) /\ ref_png[p][4] = Opaque /\ to_keep_masks[2][p]

------------------------------------------------------------------------------
(* Claims on plot_histograms and save_results *)

\* plot_histograms returns for the mode being processed
PlotHistogramsReturns == pc = "plot_histograms" /\ pc' = "save_results"

\* the pixels of the mode's population: keep mask and outlier mask
ModePopulation == {p \in Pix : to_keep_masks[mode][p] /\ no_outliers_mask.v[p]}
\* count_i: the size of class i in the mode's population, count_0 the size of
\* the population
ClassCount == [i \in 1..Len(ref_sets_def.v) |->
                  Cardinality({p \in ModePopulation : ref_sets_def.v[i][p]})]
ClassesWithData == {i \in 1..Len(ref_sets_def.v) : ClassCount[i] > 0}

\* the bars plot_histograms draws are those of the classes with data, in class
\* order, each 100 * count_i / count_0 high and ending at the sum of the
\* contributions so far
ContributionsStep ==
    PlotHistogramsReturns =>
        LET count_0 == Cardinality(ModePopulation)
        IN  /\ count_0 # 0
            /\ Len(contributions') = Cardinality(ClassesWithData)
            /\ \A k \in 1..Len(contributions') :
                  LET bar == contributions'[k]
                      i == bar.set_idx
                  IN  /\ i \in ClassesWithData
                      /\ k = Cardinality({j \in ClassesWithData : j <= i})
                      /\ bar.set_contribution = Rat(100 * ClassCount[i], count_0)
                      /\ bar.cumulative_percent =
                            Rat(100 * SumOver(ClassCount, {j \in ClassesWithData : j <= i}),
                                count_0)

\* C22: in plot_histograms, for every class index i >= 1 that has data, the
\* contribution is 100 * count_i / count_0, count_0 being the size of the
\* keep-masked 'all' set; count_0 is non-zero whenever a later set has data, and
\* the cumulative contribution is the sum of the contributions of the non-empty
\* classes seen so far.
C22_Contributions == [][ContributionsStep]_vars

\* two classes with data share the population: two bars, the second ending at
\* 100; the first class of the range has no data
C22_Witness ==
    /\ pc = "save_results"
    /\ Len(contributions) = 2
    /\ contributions[1].set_idx >= 2
    /\ contributions[1].cumulative_percent # Rat(100, 1)
    /\ contributions[2].cumulative_percent = Rat(100, 1)

\* save_results saves the records of the mode being processed
SaveResultsReturns == pc = "save_results" /\ pc' # pc

\* the size of the set of index k in the mode's population, the set of index 0
\* being the 'all' set
SetCount(k) == IF k = 0 THEN Cardinality(ModePopulation) ELSE ClassCount[k]

\* what save_results saves for the mode: record i under key i, with the histogram
\* file and the colour of set i exactly when set i has a pixel in the population
SavedStep ==
    SaveResultsReturns =>
        LET saved == stats_results'[Len(stats_results')]
        IN  /\ Len(stats_results') = Len(stats_results) + 1
            /\ saved.mode = modes[mode]
            /\ DOMAIN saved.results = 0..(Len(mode_stats) - 1)
            /\ \A k \in DOMAIN saved.results :
                  LET res == saved.results[k]
                      file == [type |-> "npy", mode |-> modes[mode], set_idx |-> k]
                  IN  /\ res.record = mode_stats[k + 1]
                      /\ res.record.stats.nbpts = SetCount(k)
                      /\ IF SetCount(k) # 0
                         THEN /\ res.plot_file = Some(file)
                              /\ file \in artifacts'
                              /\ res.plot_color = Some(k)
                         ELSE /\ res.plot_file = None
                              /\ res.plot_color = None
                              /\ file \notin artifacts'

\* C23: in every mode processed, the stats record at position i is saved under
\* key str(i) and carries plot_file and plot_color iff the set at index i has at
\* least one pixel in the mode's population (keep mask and outlier mask), that is
\* iff its count is non-zero; the plot_file is the histogram artifact written for
\* set index i and the colour is that set's colour.
C23_PlotFileIffCount == [][SavedStep]_vars

\* a mode is saved in which a class without pixels comes before a class with
\* pixels: the first has no plot file, the second has its own
C23_Witness ==
    /\ stats_results # <<>>
    /\ LET results == stats_results[1].results
       IN  /\ 2 \in DOMAIN results
           /\ results[1].plot_file = None
           /\ results[1].record.stats.nbpts = 0
           /\ results[2].plot_file =
                 Some([type |-> "npy", mode |-> "standard", set_idx |-> 2])
           /\ results[2].plot_color = Some(2)

\* a step of the per-mode loop: get_stats, plot_histograms or save_results
ModeLoopStep == pc \in {"get_stats", "plot_histograms", "save_results"} /\ pc' # pc

\* the per-mode loop leaves the masks, the outlier mask and the class grids as
\* create_masks and create_sets returned them
GridsKeptStep ==
    ModeLoopStep =>
        /\ to_keep_masks' = to_keep_masks
        /\ modes' = modes
        /\ no_outliers_mask' = no_outliers_mask
        /\ ref_sets_def' = ref_sets_def
        /\ dsm_sets_def' = dsm_sets_def

\* C24: across the per-mode loop of alti_diff_stats, the masks and the outlier
\* mask returned by create_masks and the reference class grids returned by
\* create_sets are never changed by get_stats, plot_histograms or save_results:
\* combining with the outlier filter never alters the 'standard' mask, and every
\* mode is computed from the same class grids and the same outlier mask as the
\* first mode.
C24_GridsReadOnly == [][GridsKeptStep]_vars

\* three modes are saved, plot_histograms having met a class pixel outside the mask
\* it was given
C24_Witness ==
    /\ pc = "done"
    /\ Len(stats_results) = 3
    /\ \E i \in 1..Len(ref_sets_def.v) :
          \E p \in Pix : ref_sets_def.v[i][p] /\ ~to_keep_masks[2][p]

------------------------------------------------------------------------------
(* Claims on check_csv *)

\* check_csv acts on the pair of files main is at
CheckCsvActs == pc = "check_csv" /\ <<pc, file_idx>>' # <<pc, file_idx>>

\* the titles of the pair i differ
TitlesDiffer(i) == baseline_data[i][1] # test_data[i][1]
\* the paired rows of the pair i whose class names differ
NameMismatches(i) ==
    {r \in PairedRows(i) : baseline_data[i][r][1] # test_data[i][r][1]}
\* every cell of the row r of both files of the pair i is the text of a number
CellsParse(i, r) ==
    /\ \A j \in 2..Len(baseline_data[i][r]) : ~IsNone(float(baseline_data[i][r][j]))
    /\ \A j \in 2..Len(test_data[i][r]) : ~IsNone(float(test_data[i][r][j]))

\* check_csv raises on differing titles and on a differing class name, and for
\* the first row whose class names differ it raises on the names whatever the
\* cells of that row hold
IdentityStep ==
    CheckCsvActs =>
        LET i == file_idx
            mismatches == NameMismatches(i)
        IN  /\ TitlesDiffer(i) =>
                  /\ pc' = "raised"
                  /\ differences' = <<>>
                  /\ error'.type = "ValueError"
                  /\ error'.what = "Inconsistent stats"
            /\ (~TitlesDiffer(i) /\ mismatches # {}) =>
                  /\ pc' = "raised"
                  /\ differences' = <<>>
                  /\ error'.type = "ValueError"
                  /\ LET first == CHOOSE r \in mismatches : \A q \in mismatches : r <= q
                     IN  (\A r \in PairedRows(i) : r < first => CellsParse(i, r)) =>
                            error'.what = "Inconsistent class name"

\* C25: check_csv raises an error, instead of returning differences, when the
\* header rows of baseline and test file differ or when the first column (class
\* name) of any paired data row differs; the check of a row's class name happens
\* before any numeric comparison of that row.
C25_IdentityRaises == [][IdentityStep]_vars

\* check_csv has raised on the class names of the second data row, a row with a
\* cell that is no number, after a first row that holds a difference
C25_Witness ==
    /\ pc = "raised"
    /\ ~IsNone(error)
    /\ error.what = "Inconsistent class name"
    /\ NameMismatches(1) = {3}
    /\ ~CellsParse(1, 3)
    /\ IsNan(BaselineCell(1, 2, 1)) /\ IsNan(TestCell(1, 2, 1))

\* a file as save_results writes it: the titles, then rows of a class name and one
\* number, or nan, per title
ProducedBySaveResults(csv) ==
    /\ csv[1] = Titles
    /\ \A r \in 2..Len(csv) :
          /\ Len(csv[r]) = Len(Titles)
          /\ \A j \in 2..Len(csv[r]) : ~IsNone(float(csv[r][j]))

\* the pair i is a file of save_results and an identical copy of it
IdenticalCopies(i) ==
    /\ i \in DOMAIN baseline_data /\ i \in DOMAIN test_data
    /\ baseline_data[i] = test_data[i]
    /\ ProducedBySaveResults(baseline_data[i])

\* C27: check_csv is reflexive: comparing a CSV file produced by save_results
\* with an identical copy of itself returns no difference, for every epsilon >= 0,
\* including files whose rows hold the not-a-number of zero-count classes.
C27_CheckCsvReflexive ==
    /\ \A i \in DOMAIN differences : IdenticalCopies(i) => differences[i] = <<>>
    /\ (pc = "raised" /\ file_idx >= 1) => ~IdenticalCopies(file_idx)

\* the files of the pair i have the same titles but not the same shape: another
\* number of data rows, or a paired row with another number of columns
ShapesDiffer(i) ==
    /\ ~TitlesDiffer(i)
    /\ \/ Len(baseline_data[i]) # Len(test_data[i])
       \/ \E r \in PairedRows(i) : Len(baseline_data[i][r]) # Len(test_data[i][r])

\* C28: check_csv never silently accepts files of different length: if baseline
\* and test file have the same header but a different number of data rows, or a
\* paired row has a different number of columns, check_csv raises or returns at
\* least one difference.
C28_LengthsNeverAccepted ==
    \A i \in DOMAIN differences : ShapesDiffer(i) => differences[i] # <<>>

------------------------------------------------------------------------------
(* Claims on alti_diff_stats without classification *)

\* alti_diff_stats has ended, by returning or by raising
Ended == pc \in {"done", "raised"}

\* C26: when classification is disabled (class_type is None), alti_diff_stats
\* runs to completion: it computes the single 'standard' mode, produces one 'all'
\* stats record and persists the stats JSON and CSV of that mode without raising.
C26_NoClassificationCompletes ==
    (Ended /\ cfg.class_type = "none") =>
        /\ pc = "done"
        /\ modes = <<"standard">>
        /\ Len(stats_results) = 1
        /\ DOMAIN stats_results[1].results = {0}
        /\ stats_results[1].results[0].record.set_label = [kind |-> "all"]
        /\ [type |-> "json", mode |-> "standard", set_idx |-> 0] \in artifacts
        /\ [type |-> "csv", mode |-> "standard", set_idx |-> 0] \in artifacts

------------------------------------------------------------------------------
(* Claims on the pipeline from create_sets to create_masks *)

\* C29: end to end over create_sets (reference and DSM, with the all-zero nodata
\* descriptor), cross_class_apha_bands and create_masks: a pixel is in the
\* 'coherent-classification' mask iff it is in the 'standard' mask and ref_sets[i]
\* equals dsm_sets[i] at that pixel for every class index i, and it is in the
\* 'incoherent-classification' mask iff it is in 'standard' and some class index
\* disagrees.
C29_CoherentIffSetsAgree ==
    Len(modes) = 3 =>
        \A p \in Pix :
           /\ to_keep_masks[2][p] <=>
                 /\ to_keep_masks[1][p]
                 /\ \A i \in 1..Len(ref_sets_def.v) :
                       ref_sets_def.v[i][p] = dsm_sets_def.v[i][p]
           /\ to_keep_masks[3][p] <=>
                 /\ to_keep_masks[1][p]
                 /\ \E i \in 1..Len(ref_sets_def.v) :
                       ref_sets_def.v[i][p] # dsm_sets_def.v[i][p]

\* three masks: a pixel in no class on both sides is coherent, a pixel of a class
\* on one side only is incoherent
C29_Witness ==
    /\ Len(modes) = 3
    /\ \E p \in Pix : /\ to_keep_masks[2][p]
                      /\ ClassesOf(ref_sets_def.v, p) = {}
                      /\ ClassesOf(dsm_sets_def.v, p) = {}
    /\ \E p \in Pix : /\ to_keep_masks[3][p]
                      /\ ClassesOf(ref_sets_def.v, p) # {}
                      /\ ClassesOf(dsm_sets_def.v, p) = {}

------------------------------------------------------------------------------
(* Claims on the populations of get_stats *)

\* the population of the record of class i and of the 'all' record in the mode
\* being processed
RecordPopulation(i) ==
    SetPopulation(ref_sets_def.v[i], Some(to_keep_masks[mode]), no_outliers_mask)
AllRecordPopulation == AllPopulation(Some(to_keep_masks[mode]), no_outliers_mask)

\* the sum of the counts of the class records
SumOfClassCounts ==
    SumOver([i \in 1..Len(ref_sets_def.v) |-> mode_stats[i + 1].stats.nbpts],
            1..Len(ref_sets_def.v))

\* no pixel of the 'all' population has a reference support value below the first
\* boundary
NoneBelowFirstBoundary ==
    \A p \in AllRecordPopulation : ~FLt(support_ref.r[p], Fin(cfg.class_rad_range[1]))

\* C30: for every mode, with class grids produced by create_sets from strictly
\* increasing boundaries, the populations of the class records of get_stats are
\* pairwise disjoint subsets of the population of the 'all' record, so the sum of
\* the class counts never exceeds the 'all' count; in the 'standard' mode the sum
\* equals the 'all' count when no kept pixel has a reference support value below
\* the first boundary.
C30_ClassPopulationsDisjoint ==
    (StatsComputed /\ do_classify_results) =>
        LET classes == 1..Len(ref_sets_def.v)
        IN  /\ mode_stats[1].stats.nbpts = Cardinality(AllRecordPopulation)
            /\ \A i \in classes :
                  /\ mode_stats[i + 1].stats.nbpts = Cardinality(RecordPopulation(i))
                  /\ RecordPopulation(i) \subseteq AllRecordPopulation
                  /\ \A j \in classes \ {i} :
                        RecordPopulation(i) \cap RecordPopulation(j) = {}
            /\ SumOfClassCounts <= mode_stats[1].stats.nbpts
            /\ (modes[mode] = "standard" /\ NoneBelowFirstBoundary) =>
                  SumOfClassCounts = mode_stats[1].stats.nbpts

\* the 'standard' mode with two classes that have a pixel each and make up the
\* 'all' record
C30_Witness ==
    /\ pc = "plot_histograms"
    /\ do_classify_results
    /\ modes[mode] = "standard"
    /\ Len(ref_sets_def.v) >= 2
    /\ mode_stats[2].stats.nbpts >= 1
    /\ mode_stats[3].stats.nbpts >= 1
    /\ NoneBelowFirstBoundary
    /\ SumOfClassCounts = mode_stats[1].stats.nbpts

====
